---- MODULE Spec2Model ----
(***************************************************************************)
(* State-machine model of the user-management backend:                     *)
(*   - the users table and the two /profile endpoints                      *)
(*     (app/routers/profile_routes.py, app/models/user_model.py,           *)
(*      app/schemas/user_schemas.py);                                      *)
(*   - the existence-checked alembic migration 9a61ec22c854.               *)
(* Spec    : the request handlers, one action per handler, each request    *)
(*           running alone from its first read to its commit.              *)
(* MigSpec : the migration's upgrade() and downgrade() on a live schema.   *)
(* ConcSpec: two professional-status requests in flight, each in its own   *)
(*           session, a step per database round trip.                      *)
(***************************************************************************)
EXTENDS Integers, FiniteSets, Sequences

VARIABLES
    users,    \* the users table: id -> row (committed state)
    now,      \* the reading of the wall clock
    last,     \* the last request handled and its response
    schema,   \* the live schema of the users table: [cols, fks]
    mig,      \* the last migration step run, its outcome, the schema before it
    sess      \* the database session of each request in flight

vars == <<users, now, last, schema, mig, sess>>

----------------------------------------------------------------------------
(* Bounds *)

\* timestamps and clock readings range over 0..MaxTime
MaxTime == 1

\* a PATCH body carries at most MaxKeys keys
MaxKeys == 2

----------------------------------------------------------------------------
(* Values *)

\* Python None / SQL NULL of the string, dict and UUID values
NULL == "NULL"

\* SQL NULL for professional_status_updated_at (nullable, server_default=None)
NullTs == -1

UserRole == {"ANONYMOUS", "AUTHENTICATED", "MANAGER", "ADMIN"}

\* The rows of the users table: one user of each role.
UserIds == {"a1", "m1", "u1", "g1"}

RoleOf(id) ==
    CASE id = "a1" -> "ADMIN"
      [] id = "m1" -> "MANAGER"
      [] id = "u1" -> "AUTHENTICATED"
      [] id = "g1" -> "ANONYMOUS"

\* An identifier that resolves to no row.
GhostId == "x9"

\* Callers of PATCH /profile/me, and user_id values of POST /profile/upgrade.
ProfileCallers == {"u1"}
TargetIds == {"u1", GhostId}

StrFields == {"first_name", "last_name", "bio", "location"}
ProfileFields == StrFields \cup {"extra_fields"}

\* A key of the body that is no field of ProfileUpdate.
UnknownKeys == {"role"}
Keys == ProfileFields \cup UnknownKeys

\* "s" is a short string; "L501" stands for a string of 501 characters.
StrVals == {"s", "L501"}

\* The fields whose bodies also carry the long string.
LongFields == {"first_name", "bio"}

StrLen(v) == IF v = "s" THEN 1 ELSE 501

\* a JSON object
DictVals == {"d"}

ValsOf(k) ==
    IF k \in LongFields THEN {NULL} \cup StrVals
    ELSE IF k \in StrFields THEN {NULL, "s"}
    ELSE IF k = "extra_fields" THEN {NULL} \cup DictVals
    ELSE {NULL, "ADMIN"}

AllVals == UNION {ValsOf(k) : k \in Keys}

\* The request bodies: JSON objects of at most MaxKeys keys.
Payloads ==
    UNION {{p \in [K -> AllVals] : \A k \in K : p[k] \in ValsOf(k)} :
           K \in {S \in SUBSET Keys : Cardinality(S) <= MaxKeys}}

----------------------------------------------------------------------------
(* ProfileUpdate (schemas/user_schemas.py) *)

SchemaMaxLen(f) ==
    CASE f = "first_name" -> 100
      [] f = "last_name" -> 100
      [] f = "bio" -> 2000
      [] f = "location" -> 120

\* the model validator (mode="before"), run on the raw body
at_least_one(values) ==
    /\ DOMAIN values # {}
    /\ \E k \in DOMAIN values : values[k] # NULL

\* Optional[str] = Field(None, max_length=...) / Optional[dict]
FieldValid(f, v) ==
    \/ v = NULL
    \/ f \in StrFields /\ v \in StrVals /\ StrLen(v) <= SchemaMaxLen(f)
    \/ f = "extra_fields" /\ v \in DictVals

\* the body validates as a ProfileUpdate (keys that are no field are ignored)
ProfileUpdateValid(values) ==
    /\ at_least_one(values)
    /\ \A f \in DOMAIN values \cap ProfileFields : FieldValid(f, values[f])

\* payload.model_dump(exclude_unset=True): the fields the body set
model_dump(values) ==
    [f \in DOMAIN values \cap ProfileFields |-> values[f]]

----------------------------------------------------------------------------
(* User (models/user_model.py) *)

\* String(n) of the mapped columns
ColumnLen(f) ==
    CASE f = "first_name" -> 100
      [] f = "last_name" -> 100
      [] f = "bio" -> 500
      [] f = "location" -> 120

\* A row as registration leaves it: no profile, not professional.
NewUser(id) ==
    [ role |-> RoleOf(id),
      first_name |-> NULL, last_name |-> NULL, bio |-> NULL,
      location |-> NULL, extra_fields |-> NULL,
      is_professional |-> FALSE,
      professional_status_updated_at |-> NullTs,
      professional_upgraded_by_id |-> NULL ]

\* datetime.now(timezone.utc)
PyNow == now

\* func.now() of the store
DbNow == now

\* faulty variant: the upgrader is recorded only when none is recorded yet
mark_professional_keep_first(self, by_user_id) ==
    [self EXCEPT !.is_professional = TRUE,
                 !.professional_status_updated_at = PyNow,
                 !.professional_upgraded_by_id =
                     IF @ = NULL THEN by_user_id ELSE @]

mark_professional(self, by_user_id) ==
    [self EXCEPT !.is_professional = TRUE,
                 !.professional_status_updated_at = PyNow,
                 !.professional_upgraded_by_id = by_user_id]

\* faulty variant: the flag is left as it was
clear_professional_keep_flag(self) ==
    [self EXCEPT !.professional_status_updated_at = PyNow,
                 !.professional_upgraded_by_id = NULL]

\* faulty variant: the upgrader is left as it was
clear_professional_keep_by(self) ==
    [self EXCEPT !.is_professional = FALSE,
                 !.professional_status_updated_at = PyNow]

clear_professional(self) ==
    [self EXCEPT !.is_professional = FALSE,
                 !.professional_status_updated_at = PyNow,
                 !.professional_upgraded_by_id = NULL]

\* faulty variant: a request for the status the user already has does nothing
update_professional_status_on_change(self, status, by_user_id) ==
    IF self.is_professional = status THEN self
    ELSE IF status
    THEN [self EXCEPT !.is_professional = TRUE,
                      !.professional_status_updated_at = PyNow,
                      !.professional_upgraded_by_id = by_user_id]
    ELSE [self EXCEPT !.is_professional = FALSE,
                      !.professional_status_updated_at = PyNow,
                      !.professional_upgraded_by_id = NULL]

update_professional_status(self, status, by_user_id) ==
    IF status THEN mark_professional(self, by_user_id)
    ELSE clear_professional(self)

\* The varchar columns take the values of obj.
ColumnsFit(obj) ==
    \A f \in StrFields : obj[f] = NULL \/ StrLen(obj[f]) <= ColumnLen(f)

\* The row the flush of obj writes over row: an UPDATE of the attributes whose
\* value changed, and, in any UPDATE that does not set it,
\* professional_status_updated_at = now() (onupdate=func.now()).
\* No attribute changed: no UPDATE.
Flush(row, obj) ==
    IF obj = row THEN row
    ELSE IF obj.professional_status_updated_at # row.professional_status_updated_at
         THEN obj
         ELSE [obj EXCEPT !.professional_status_updated_at = DbNow]

----------------------------------------------------------------------------
(* The endpoints (routers/profile_routes.py) *)

\* The last request: the endpoint, the caller, the status of the response,
\* whether the handler committed, the number of ProfileUpdate fields the body
\* set, and, for an upgrade the handler applied, its target and its status.
NoRequest ==
    [op |-> "none", status |-> 0, committed |-> FALSE, actor |-> NULL,
     target |-> NULL, professional |-> FALSE, nset |-> 0]

Response(op, status, committed, actor, target, professional, nset) ==
    [op |-> op, status |-> status, committed |-> committed, actor |-> actor,
     target |-> target, professional |-> professional, nset |-> nset]

\* faulty variant: a full replace, the fields the body omits are reset
ApplyFields_replace(current_user, dump) ==
    [k \in DOMAIN current_user |->
        IF k \in DOMAIN dump THEN dump[k]
        ELSE IF k \in {"first_name", "last_name", "bio", "location", "extra_fields"}
        THEN NULL ELSE current_user[k]]

\* for field, value in payload.model_dump(exclude_unset=True).items():
\*     setattr(current_user, field, value)
ApplyFields(current_user, dump) ==
    [k \in DOMAIN current_user |->
        IF k \in DOMAIN dump THEN dump[k] ELSE current_user[k]]

\* What PATCH /profile/me does to the caller's row `row` with body `values`:
\* the status of the response, whether db.commit() succeeded, the row it leaves.
\*   422: the body does not validate as a ProfileUpdate (the handler never runs)
\*   500: the UPDATE fails in the store (a value longer than its column);
\*        the exception handler of main.py answers, the session is rolled back
\*   200: the fields of the body are set on the row and committed
ProfileOutcome(row, values) ==
    LET obj == ApplyFields(row, model_dump(values))
    IN  IF ~ProfileUpdateValid(values)
        THEN [status |-> 422, committed |-> FALSE, row |-> row]
        ELSE IF obj # row /\ ~ColumnsFit(obj)
        THEN [status |-> 500, committed |-> FALSE, row |-> row]
        ELSE [status |-> 200, committed |-> TRUE, row |-> Flush(row, obj)]

\* PATCH /profile/me by user `caller` with body `values`
update_profile_me(caller, values) ==
    /\ caller \in DOMAIN users
    /\ LET o == ProfileOutcome(users[caller], values)
           n == Cardinality(DOMAIN model_dump(values))
       IN  /\ users' = [users EXCEPT ![caller] = o.row]
           /\ last' = Response("patch", o.status, o.committed, caller, NULL, FALSE, n)
    /\ UNCHANGED <<now, schema, mig, sess>>

\* faulty variant: every signed-in user passes
AllowedRoles_signed_in == {"ADMIN", "MANAGER", "AUTHENTICATED"}

\* require_role(["ADMIN", "MANAGER"])
AllowedRoles == {"ADMIN", "MANAGER"}

\* the dependency lets the caller through
require_role(roles, caller) == users[caller].role \in roles

\* faulty variant: an unresolved user_id falls back to the caller's own row
upgrade_user_fallback_to_actor(caller, user_id, professional) ==
    /\ caller \in DOMAIN users
    /\ IF users[caller].role \notin {"ADMIN", "MANAGER"}
       THEN /\ last' = [op |-> "upgrade", status |-> 403, committed |-> FALSE,
                        actor |-> caller, target |-> NULL,
                        professional |-> FALSE, nset |-> 0]
            /\ UNCHANGED users
       ELSE LET id == IF user_id \in DOMAIN users THEN user_id ELSE caller
                target == users[id]
                obj == update_professional_status(target, professional, caller)
            IN  /\ users' = [users EXCEPT ![id] = Flush(target, obj)]
                /\ last' = [op |-> "upgrade", status |-> 200, committed |-> TRUE,
                            actor |-> caller, target |-> id,
                            professional |-> professional, nset |-> 0]
    /\ UNCHANGED <<now, schema, mig, sess>>

\* POST /profile/upgrade by user `caller` with body {user_id, professional}
upgrade_user_to_professional(caller, user_id, professional) ==
    /\ caller \in DOMAIN users
    /\ IF ~require_role(AllowedRoles, caller)
       THEN /\ last' = Response("upgrade", 403, FALSE, caller, NULL, FALSE, 0)
            /\ UNCHANGED users
       ELSE IF user_id \notin DOMAIN users
       THEN /\ last' = Response("upgrade", 404, FALSE, caller, NULL, FALSE, 0)
            /\ UNCHANGED users
       ELSE LET target == users[user_id]
                obj == update_professional_status(target, professional, caller)
            IN  /\ users' = [users EXCEPT ![user_id] = Flush(target, obj)]
                /\ last' = Response("upgrade", 200, TRUE, caller, user_id, professional, 0)
    /\ UNCHANGED <<now, schema, mig, sess>>

\* The wall clock advances.
Tick ==
    /\ now < MaxTime
    /\ now' = now + 1
    /\ UNCHANGED <<users, last, schema, mig, sess>>

\* The wall clock is set back (datetime.now is not monotonic).
ClockSetBack ==
    /\ now > 0
    /\ now' \in 0..(now - 1)
    /\ UNCHANGED <<users, last, schema, mig, sess>>

PatchProfile ==
    \E caller \in ProfileCallers, values \in Payloads :
        update_profile_me(caller, values)

UpgradeProfessional ==
    \E caller \in UserIds, user_id \in TargetIds, professional \in BOOLEAN :
        upgrade_user_to_professional(caller, user_id, professional)

----------------------------------------------------------------------------
(* Requests in flight (routers/profile_routes.py, one session per request) *)

Sessions == {"s1", "s2"}

\* A session that holds no request.
IdleSession ==
    [pc |-> "idle", status |-> 0, actor |-> NULL, professional |-> FALSE,
     loaded |-> NULL, obj |-> NULL, tc |-> NullTs, nth |-> 0]

NoSessions == [s \in Sessions |-> IdleSession]

\* The row the flush of obj leaves when the session loaded `loaded` and the
\* store now holds `dbrow`: UPDATE users SET <the attributes whose value
\* differs from the loaded one> WHERE id = :id, with
\* professional_status_updated_at = now() when the UPDATE does not set it.
\* No attribute differs: no UPDATE.
Update(dbrow, loaded, obj) ==
    LET changed == {k \in DOMAIN obj : obj[k] # loaded[k]}
    IN  IF changed = {} THEN dbrow
        ELSE [k \in DOMAIN dbrow |->
                IF k \in changed THEN obj[k]
                ELSE IF k = "professional_status_updated_at" THEN DbNow
                ELSE dbrow[k]]

\* The number of requests that have committed.
Committed == Cardinality({s \in Sessions : sess[s].nth > 0})

\* actor = Depends(require_role([...])); target = await db.get(User, body.user_id)
ReqRead(s, caller, user_id, professional) ==
    /\ sess[s].pc = "idle"
    /\ caller \in DOMAIN users
    /\ sess' = [sess EXCEPT ![s] =
          IF ~require_role(AllowedRoles, caller)
          THEN [@ EXCEPT !.pc = "done", !.status = 403, !.actor = caller]
          ELSE IF user_id \notin DOMAIN users
          THEN [@ EXCEPT !.pc = "done", !.status = 404, !.actor = caller]
          ELSE [@ EXCEPT !.pc = "loaded", !.actor = caller,
                         !.professional = professional,
                         !.loaded = users[user_id], !.obj = users[user_id]]]
    /\ UNCHANGED <<users, now, last, schema, mig>>

\* target.update_professional_status(body.professional, by_user_id=actor.id)
ReqMutate(s) ==
    /\ sess[s].pc = "loaded"
    /\ sess' = [sess EXCEPT ![s] =
          [@ EXCEPT !.pc = "dirty",
                    !.obj = update_professional_status(
                                sess[s].loaded, sess[s].professional, sess[s].actor)]]
    /\ UNCHANGED <<users, now, last, schema, mig>>

\* await db.commit(): the flush and the COMMIT
ReqCommit(s, user_id) ==
    /\ sess[s].pc = "dirty"
    /\ user_id \in DOMAIN users
    /\ users' = [users EXCEPT ![user_id] = Update(@, sess[s].loaded, sess[s].obj)]
    /\ sess' = [sess EXCEPT ![s] =
          [@ EXCEPT !.pc = "done", !.status = 200, !.tc = DbNow,
                    !.nth = Committed + 1]]
    /\ UNCHANGED <<now, last, schema, mig>>

\* The user the requests in flight are about.
ConcTarget == "u1"

Read ==
    \E s \in Sessions, caller \in UserIds, user_id \in {ConcTarget, GhostId},
       professional \in BOOLEAN :
        ReqRead(s, caller, user_id, professional)

Mutate == \E s \in Sessions : ReqMutate(s)

Commit == \E s \in Sessions : ReqCommit(s, ConcTarget)

\* The rows of the target when the requests arrive: as registered, or made
\* professional by the admin or the manager at the first reading of the clock.
StartRows ==
    {NewUser(ConcTarget)} \cup
    {[NewUser(ConcTarget) EXCEPT !.is_professional = TRUE,
                                 !.professional_status_updated_at = 0,
                                 !.professional_upgraded_by_id = a] :
        a \in {"a1", "m1"}}

----------------------------------------------------------------------------
(* Migration 9a61ec22c854 (alembic/versions) *)

\* The columns the migration adds to the users table.
TargetCols ==
    {"location", "is_professional", "professional_status_updated_at",
     "professional_upgraded_by_id", "extra_fields"}

FkName == "fk_users_professional_upgraded_by"

\* The name the store gives the unnamed ForeignKey("users.id") of the mapped
\* column when the table was created from the model.
AutoFkName == "users_professional_upgraded_by_id_fkey"

FkNames == {FkName, AutoFkName}

\* Every foreign key of the model is on this column.
FkColumn == "professional_upgraded_by_id"

\* A run of a migration step: the schema so far and the error that stopped it.
Run(s) == [cols |-> s.cols, fks |-> s.fks, err |-> "none"]

\* op.add_column("users", Column(c))
add_column(r, c) ==
    IF r.err # "none" THEN r
    ELSE IF c \in r.cols THEN [r EXCEPT !.err = "DuplicateColumn"]
    ELSE [r EXCEPT !.cols = @ \cup {c}]

\* op.create_foreign_key(name, "users", "users", [c], ["id"])
create_foreign_key(r, name, c) ==
    IF r.err # "none" THEN r
    ELSE IF name \in r.fks THEN [r EXCEPT !.err = "DuplicateObject"]
    ELSE IF c \notin r.cols THEN [r EXCEPT !.err = "UndefinedColumn"]
    ELSE [r EXCEPT !.fks = @ \cup {name}]

\* op.drop_constraint(name, "users", type_="foreignkey")
drop_constraint(r, name) ==
    IF r.err # "none" THEN r
    ELSE IF name \notin r.fks THEN [r EXCEPT !.err = "UndefinedObject"]
    ELSE [r EXCEPT !.fks = @ \ {name}]

\* op.drop_column("users", c): the foreign keys on the column go with it
drop_column(r, c) ==
    IF r.err # "none" THEN r
    ELSE IF c \notin r.cols THEN [r EXCEPT !.err = "UndefinedColumn"]
    ELSE [r EXCEPT !.cols = @ \ {c},
                   !.fks = IF c = FkColumn THEN {} ELSE @]

\* faulty variant: location is added without looking at the live schema
upgrade_blind_location(s) ==
    LET existing_cols == s.cols
        existing_fks == s.fks
        r1 == add_column(Run(s), "location")
        r2 == IF "is_professional" \notin existing_cols
              THEN add_column(r1, "is_professional") ELSE r1
        r3 == IF "professional_status_updated_at" \notin existing_cols
              THEN add_column(r2, "professional_status_updated_at") ELSE r2
        r4 == IF "professional_upgraded_by_id" \notin existing_cols
              THEN add_column(r3, "professional_upgraded_by_id") ELSE r3
        r5 == IF "extra_fields" \notin existing_cols
              THEN add_column(r4, "extra_fields") ELSE r4
    IN  IF FkName \notin (existing_fks \ {NULL})
        THEN create_foreign_key(r5, FkName, "professional_upgraded_by_id")
        ELSE r5

\* upgrade(): existing_cols and existing_fks are read once, before any change
upgrade(s) ==
    LET existing_cols == s.cols
        existing_fks == s.fks
        r0 == Run(s)
        r1 == IF "location" \notin existing_cols
              THEN add_column(r0, "location") ELSE r0
        r2 == IF "is_professional" \notin existing_cols
              THEN add_column(r1, "is_professional") ELSE r1
        r3 == IF "professional_status_updated_at" \notin existing_cols
              THEN add_column(r2, "professional_status_updated_at") ELSE r2
        r4 == IF "professional_upgraded_by_id" \notin existing_cols
              THEN add_column(r3, "professional_upgraded_by_id") ELSE r3
        r5 == IF "extra_fields" \notin existing_cols
              THEN add_column(r4, "extra_fields") ELSE r4
    IN  IF FkName \notin (existing_fks \ {NULL})
        THEN create_foreign_key(r5, FkName, "professional_upgraded_by_id")
        ELSE r5

\* the order in which downgrade() visits the columns
DowngradeCols ==
    <<"extra_fields", "professional_upgraded_by_id",
      "professional_status_updated_at", "is_professional", "location">>

\* for col in (...): if col in existing_cols: op.drop_column("users", col)
RECURSIVE DropLoop(_, _, _)
DropLoop(r, existing_cols, i) ==
    IF i > Len(DowngradeCols) THEN r
    ELSE DropLoop(IF DowngradeCols[i] \in existing_cols
                  THEN drop_column(r, DowngradeCols[i]) ELSE r,
                  existing_cols, i + 1)

\* faulty variant: the columns are dropped first and the constraint after them
downgrade_columns_first(s) ==
    LET existing_cols == s.cols
        existing_fks == s.fks
        r1 == DropLoop(Run(s), existing_cols, 1)
    IN  IF FkName \in (existing_fks \ {NULL})
        THEN drop_constraint(r1, FkName) ELSE r1

\* downgrade(): the constraint first, then the columns
downgrade(s) ==
    LET existing_cols == s.cols
        existing_fks == s.fks
        r0 == Run(s)
        r1 == IF FkName \in (existing_fks \ {NULL})
              THEN drop_constraint(r0, FkName) ELSE r0
    IN  DropLoop(r1, existing_cols, 1)

\* The schema a run leaves: env.py runs a step inside one transaction, so a
\* step that raised leaves the schema as it found it.
Leaves(s, r) ==
    IF r.err = "none" THEN [cols |-> r.cols, fks |-> r.fks] ELSE s

\* alembic upgrade: run upgrade() on the live schema
MigUpgrade ==
    LET r == upgrade(schema)
    IN  /\ schema' = Leaves(schema, r)
        /\ mig' = [op |-> "upgrade", err |-> r.err, before |-> schema]
        /\ UNCHANGED <<users, now, last, sess>>

\* alembic downgrade: run downgrade() on the live schema
MigDowngrade ==
    LET r == downgrade(schema)
    IN  /\ schema' = Leaves(schema, r)
        /\ mig' = [op |-> "downgrade", err |-> r.err, before |-> schema]
        /\ UNCHANGED <<users, now, last, sess>>

\* The schemas a deployment may start from: any of the five columns, and either
\* foreign key when its column is there.
StartSchemas ==
    {s \in [cols : SUBSET TargetCols, fks : SUBSET FkNames] :
        s.fks # {} => FkColumn \in s.cols}

\* The schema the endpoints run against.
TargetSchema == [cols |-> TargetCols, fks |-> {FkName}]

NoMigration(s) == [op |-> "none", err |-> "none", before |-> s]

----------------------------------------------------------------------------
(* Removal of a user (models/user_model.py, the self-referencing key) *)

\* faulty variant: the key takes no action on the referencing rows
on_delete_no_action(rows, id) ==
    [u \in DOMAIN rows \ {id} |-> rows[u]]

\* ForeignKey("users.id", ondelete="SET NULL"): the rows left when row `id`
\* goes, every professional_upgraded_by_id that referenced it set to null and
\* nothing else of the referencing rows touched.
on_delete_set_null(rows, id) ==
    [u \in DOMAIN rows \ {id} |->
        IF rows[u].professional_upgraded_by_id = id
        THEN [rows[u] EXCEPT !.professional_upgraded_by_id = NULL]
        ELSE rows[u]]

\* DELETE FROM users WHERE id = :id
DeleteUser(id) ==
    /\ id \in DOMAIN users
    /\ FkColumn \in schema.cols /\ schema.fks # {}
    /\ users' = on_delete_set_null(users, id)
    /\ UNCHANGED <<now, last, schema, mig, sess>>

\* The users a professional-status request is made about when users come and go.
DelTargets == {"a1", "u1"}

DelUpgrade ==
    \E caller \in UserIds, user_id \in DelTargets, professional \in BOOLEAN :
        upgrade_user_to_professional(caller, user_id, professional)

Delete == \E id \in UserIds : DeleteUser(id)

----------------------------------------------------------------------------
(* Specifications *)

Init ==
    /\ users = [id \in UserIds |-> NewUser(id)]
    /\ now = 0
    /\ last = NoRequest
    /\ schema = TargetSchema
    /\ mig = NoMigration(TargetSchema)
    /\ sess = NoSessions

Next ==
    \/ PatchProfile
    \/ UpgradeProfessional
    \/ Tick
    \/ ClockSetBack

Spec == Init /\ [][Next]_vars

MigInit ==
    /\ users = [id \in UserIds |-> NewUser(id)]
    /\ now = 0
    /\ last = NoRequest
    /\ schema \in StartSchemas
    /\ mig = NoMigration(schema)
    /\ sess = NoSessions

MigNext ==
    \/ MigUpgrade
    \/ MigDowngrade

MigSpec == MigInit /\ [][MigNext]_vars

ConcInit ==
    /\ now = 0
    /\ \E r \in StartRows :
          users = [id \in UserIds |-> IF id = ConcTarget THEN r ELSE NewUser(id)]
    /\ last = NoRequest
    /\ schema = TargetSchema
    /\ mig = NoMigration(TargetSchema)
    /\ sess = NoSessions

ConcNext ==
    \/ Read
    \/ Mutate
    \/ Commit
    \/ Tick
    \/ ClockSetBack

ConcSpec == ConcInit /\ [][ConcNext]_vars

DelNext ==
    \/ DelUpgrade
    \/ Delete
    \/ Tick
    \/ ClockSetBack

DelSpec == Init /\ [][DelNext]_vars

----------------------------------------------------------------------------
(* Properties of the endpoints, checked under Spec *)

Elevated == {"ADMIN", "MANAGER"}

\* C1: an accepted PATCH /profile/me whose body carries at least one of the
\* permitted fields gives exactly the fields of the body the body's values on
\* the caller's row, and leaves every permitted field the body omits as it was.
C1_PartialUpdate ==
    \A c \in ProfileCallers, p \in Payloads :
        LET o == ProfileOutcome(users[c], p)
        IN  (o.status = 200 /\ DOMAIN p \cap ProfileFields # {}) =>
                \A f \in ProfileFields :
                    o.row[f] = IF f \in DOMAIN p THEN p[f] ELSE users[c][f]

\* An accepted one-field PATCH has left the caller with two fields set: the
\* field of the body took its value next to a field kept from before.
C1_Witness ==
    /\ last.op = "patch" /\ last.status = 200 /\ last.nset = 1
    /\ users["u1"].first_name = "s"
    /\ users["u1"].bio = "s"
    /\ users["u1"].location = NULL

\* The body sets none of the permitted fields: it is empty, or every permitted
\* key it carries is null, or it carries only keys that are no permitted field.
SetsNoField(p) == \A f \in DOMAIN p \cap ProfileFields : p[f] = NULL

\* C2: a PATCH /profile/me whose body sets none of the permitted fields is
\* rejected with a validation error: nothing is committed and no row changes.
C2_EmptyRejected ==
    [][last'.op = "patch" =>
        \A c \in ProfileCallers, p \in Payloads :
            (SetsNoField(p) /\ update_profile_me(c, p)) =>
                (last'.status = 422 /\ ~last'.committed /\ users' = users)]_vars

\* C3: a professional=true request by an admin or manager on an existing user
\* is applied, and leaves the target with is_professional = true and the
\* caller as its upgrader, whatever the target's status and upgrader were.
C3_UpgradeRecordsActor ==
    [][last'.op = "upgrade" =>
        \A c \in UserIds, t \in TargetIds \cap DOMAIN users :
            (users[c].role \in Elevated /\ upgrade_user_to_professional(c, t, TRUE)) =>
                /\ last'.status = 200
                /\ users'[t].is_professional = TRUE
                /\ users'[t].professional_upgraded_by_id = c]_vars

\* The manager has upgraded u1 at a later reading of the clock than 0.
C3_Witness ==
    /\ last.op = "upgrade" /\ last.status = 200 /\ last.professional
    /\ last.actor = "m1" /\ last.target = "u1"
    /\ users["u1"].is_professional
    /\ users["u1"].professional_upgraded_by_id = "m1"
    /\ users["u1"].professional_status_updated_at > 0

\* C4: a professional=false request by an admin or manager on an existing user
\* is applied, and leaves the target with is_professional = false and no
\* upgrader, whoever the caller is and whatever the target's status was.
C4_ClearRemovesActor ==
    [][last'.op = "upgrade" =>
        \A c \in UserIds, t \in TargetIds \cap DOMAIN users :
            (users[c].role \in Elevated /\ upgrade_user_to_professional(c, t, FALSE)) =>
                /\ last'.status = 200
                /\ users'[t].is_professional = FALSE
                /\ users'[t].professional_upgraded_by_id = NULL]_vars

\* The manager has cleared the status of u1, stamped after an earlier stamp.
C4_Witness ==
    /\ last.op = "upgrade" /\ last.status = 200 /\ ~last.professional
    /\ last.actor = "m1" /\ last.target = "u1"
    /\ ~users["u1"].is_professional
    /\ users["u1"].professional_upgraded_by_id = NULL
    /\ users["u1"].professional_status_updated_at > 0

\* a professional-status request has just been applied
UpgradeApplied ==
    last'.op = "upgrade" /\ last'.status = 200 /\ UpgradeProfessional

\* C5 (as claimed): every applied professional-status request replaces the
\* target's professional_status_updated_at with the current time, and the new
\* timestamp is strictly greater than the one the target held before.
C5_StrictlyGreater ==
    [][UpgradeApplied =>
        LET t == last'.target
        IN  /\ users'[t].professional_status_updated_at = now
            /\ users[t].professional_status_updated_at # NullTs =>
                   users'[t].professional_status_updated_at >
                       users[t].professional_status_updated_at]_vars

\* C5 (amended): every applied professional-status request, in either
\* direction and also when the status does not change, sets the target's
\* professional_status_updated_at to the reading of the clock at the request.
C5_StampsClockReading ==
    [][UpgradeApplied =>
        users'[last'.target].professional_status_updated_at = now]_vars

\* A request for the status the target already has was applied and stamped
\* with a later reading than 0.
C5_Witness ==
    /\ last.op = "upgrade" /\ last.status = 200 /\ ~last.professional
    /\ ~users["u1"].is_professional
    /\ users["u1"].professional_status_updated_at = MaxTime
    /\ now = MaxTime

\* C6: a professional-status request that reaches the handler with a user_id
\* that resolves to no user is answered 404; no row is modified, nothing is
\* committed.
C6_NotFound ==
    [][last'.op = "upgrade" =>
        \A c \in UserIds, t \in TargetIds \ DOMAIN users, b \in BOOLEAN :
            (users[c].role \in Elevated /\ upgrade_user_to_professional(c, t, b)) =>
                (last'.status = 404 /\ ~last'.committed /\ users' = users)]_vars

\* A 404 has been answered while a user holds a professional status.
C6_Witness ==
    /\ last.op = "upgrade" /\ last.status = 404 /\ ~last.committed
    /\ users["u1"].is_professional
    /\ users["u1"].professional_upgraded_by_id = "a1"

\* C7: a professional-status request is applied only for a caller whose role is
\* admin or manager; a request of any other caller is rejected and changes no
\* user's professional status, timestamp or upgrader.
C7_RoleRequired ==
    [][last'.op = "upgrade" =>
        \A c \in UserIds, t \in TargetIds, b \in BOOLEAN :
            upgrade_user_to_professional(c, t, b) =>
                /\ last'.status = 200 => users[c].role \in Elevated
                /\ users[c].role \notin Elevated =>
                       /\ last'.status = 403 /\ ~last'.committed
                       /\ \A u \in DOMAIN users :
                            /\ users'[u].is_professional = users[u].is_professional
                            /\ users'[u].professional_status_updated_at =
                                   users[u].professional_status_updated_at
                            /\ users'[u].professional_upgraded_by_id =
                                   users[u].professional_upgraded_by_id]_vars

\* The authenticated user has been refused while not professional.
C7_Witness ==
    /\ last.op = "upgrade" /\ last.status = 403 /\ last.actor = "u1"
    /\ ~users["u1"].is_professional

\* C8: in every state reached by profile updates and professional-status
\* requests, a user with an upgrader recorded is professional.
C8_UpgraderImpliesProfessional ==
    \A u \in DOMAIN users :
        users[u].professional_upgraded_by_id # NULL => users[u].is_professional

\* A professional user with an upgrader recorded has edited the profile.
C8_Witness ==
    /\ last.op = "patch" /\ last.status = 200
    /\ users["u1"].professional_upgraded_by_id = "a1"
    /\ users["u1"].is_professional
    /\ users["u1"].first_name = "s"

----------------------------------------------------------------------------
(* Properties of the migration, checked under MigSpec *)

\* C9: from any starting schema the upgrade step raises no error and ends with
\* the five columns and the foreign key present; a second run of the upgrade
\* step changes nothing.
C9_UpgradeIdempotent ==
    [][mig'.op = "upgrade" =>
        /\ mig'.err = "none"
        /\ schema'.cols = TargetCols
        /\ FkName \in schema'.fks
        /\ mig.op = "upgrade" => schema' = schema]_vars

\* The upgrade step has run on a schema that had some of the columns, not all.
C9_Witness ==
    /\ mig.op = "upgrade" /\ mig.err = "none"
    /\ "is_professional" \in mig.before.cols
    /\ "location" \notin mig.before.cols
    /\ FkName \notin mig.before.fks
    /\ schema.cols = TargetCols

\* C10: from any starting schema the downgrade step drops the foreign key and
\* each of the five columns only when it is there, raises no error, and a
\* second run of the downgrade step changes nothing.
C10_DowngradeIdempotent ==
    [][mig'.op = "downgrade" =>
        /\ mig'.err = "none"
        /\ schema'.cols = {}
        /\ schema'.fks = {}
        /\ mig.op = "downgrade" => schema' = schema]_vars

\* The downgrade step has run on a schema that had the foreign key and some of
\* the columns, not all.
C10_Witness ==
    /\ mig.op = "downgrade" /\ mig.err = "none"
    /\ FkName \in mig.before.fks
    /\ "location" \notin mig.before.cols
    /\ schema.cols = {}

----------------------------------------------------------------------------
\* The requests of both sessions have been answered, and both committed.
BothCommitted == \A s \in Sessions : sess[s].pc = "done" /\ sess[s].status = 200

\* The triples the two committed requests leave when run one after the other:
\* the second request's flag and actor, with the timestamp it assigned or,
\* where its UPDATE did not set the timestamp, the database's reading.
SerialTriples ==
    UNION {{<<sess[s].obj.is_professional, t,
              sess[s].obj.professional_upgraded_by_id>> :
                t \in {sess[s].obj.professional_status_updated_at, sess[s].tc}} :
           s \in Sessions}

\* The committed professional=true requests, and the last of them.
TrueRequests == {s \in Sessions : sess[s].nth > 0 /\ sess[s].professional}

LastTrueRequest ==
    CHOOSE s \in TrueRequests : \A o \in TrueRequests : sess[o].nth <= sess[s].nth

\* C11: when two professional-status requests on the same target run
\* concurrently, each in its own session, the persisted triple
\* (is_professional, professional_status_updated_at,
\* professional_upgraded_by_id) is the one some one-after-the-other order
\* leaves; no interleaving ends with is_professional false and an upgrader,
\* nor with is_professional true and an upgrader other than the actor of the
\* last committed professional=true request.
C11_SerialOutcome ==
    BothCommitted =>
        LET row == users[ConcTarget]
        IN  /\ <<row.is_professional, row.professional_status_updated_at,
                 row.professional_upgraded_by_id>> \in SerialTriples
            /\ ~(~row.is_professional /\ row.professional_upgraded_by_id # NULL)
            /\ (row.is_professional /\ TrueRequests # {}) =>
                   row.professional_upgraded_by_id = sess[LastTrueRequest].actor

----------------------------------------------------------------------------
\* C12: a profile self-update changes the professional-status metadata of no
\* user: is_professional, professional_status_updated_at and
\* professional_upgraded_by_id are after the request what they were before
\* it, so professional_status_updated_at changes only through a
\* professional-status request.
C12_ProfileKeepsStatus ==
    [][PatchProfile =>
          \A id \in DOMAIN users :
              /\ users'[id].is_professional = users[id].is_professional
              /\ users'[id].professional_status_updated_at =
                     users[id].professional_status_updated_at
              /\ users'[id].professional_upgraded_by_id =
                     users[id].professional_upgraded_by_id]_vars

----------------------------------------------------------------------------
\* C13: the downgrade step is the inverse of the upgrade step for every
\* starting schema: the upgrade step followed by the downgrade step leaves the
\* users table with exactly the schema it started from.
C13_DowngradeInvertsUpgrade ==
    [][(mig.op = "upgrade" /\ mig'.op = "downgrade") =>
          schema' = mig.before]_vars

----------------------------------------------------------------------------
\* C14: in every reachable state each user's professional_upgraded_by_id is
\* null or the id of an existing user; a professional=true request records
\* the id of its acting user, who exists; and when a user is removed every
\* professional_upgraded_by_id that referenced it becomes null while the
\* referencing users keep their is_professional.
C14_UpgraderExists ==
    /\ [](\A u \in DOMAIN users :
             \/ users[u].professional_upgraded_by_id = NULL
             \/ users[u].professional_upgraded_by_id \in DOMAIN users)
    /\ [][\A caller \in UserIds, user_id \in DelTargets :
             (upgrade_user_to_professional(caller, user_id, TRUE)
                 /\ last'.status = 200) =>
                 /\ caller \in DOMAIN users'
                 /\ users'[user_id].professional_upgraded_by_id = caller]_vars
    /\ [][\A id \in UserIds :
             DeleteUser(id) =>
                 /\ id \notin DOMAIN users'
                 /\ \A u \in DOMAIN users' :
                       /\ users[u].professional_upgraded_by_id = id =>
                              users'[u].professional_upgraded_by_id = NULL
                       /\ users'[u].is_professional = users[u].is_professional]_vars

\* A user has been removed, and a user it had made professional is still
\* professional with no upgrader.
C14_Witness ==
    /\ DOMAIN users # UserIds
    /\ \E u \in DOMAIN users :
          /\ users[u].is_professional
          /\ users[u].professional_upgraded_by_id = NULL

====
